---------------------------- MODULE Spec2Model ----------------------------
(***************************************************************************)
(* Session-gated proxy in front of the broker API (src/main.py).           *)
(*                                                                         *)
(* The Flask application is served by worker threads that share one        *)
(* process-wide KiteConnect client (`kite`).  A browser session is the     *)
(* signed cookie Flask keeps for `session`: it is opened into a per-request*)
(* dictionary when a request arrives and written back with the response    *)
(* when the request modified it.  One request is handled in steps:         *)
(*   before_api_request -> view function -> Respond                        *)
(* and the steps of different workers interleave.                          *)
(***************************************************************************)
EXTENDS Integers, Sequences, FiniteSets, TLC

\* ------------------------------------------------------------------ bounds
\* Number of requests the browsers send in one behaviour.
MaxRequests == 4

\* ------------------------------------------------------------ value spaces
Workers  == {"w1", "w2"}
Sessions == {"s1", "s2"}

\* Python's None, as seen by session.get() and by the client before binding.
None == "<None>"

\* Opaque credentials of the broker.  The proxy does not validate what the
\* exchange returns, so the empty string "" is one of the values an access
\* token can take.
Tokens  == {"", "tok1"}
UserIds == {"u1", "u2"}
RequestTokens == {"rt1"}

SessionKeys == {"access_token", "user_id"}

\* A Python dict over the two session keys: a function whose DOMAIN is the
\* set of keys present.
Dicts ==
    UNION { [D -> Tokens \cup UserIds] : D \in SUBSET SessionKeys }

EmptyDict == [k \in {} |-> ""]

Has(d, k) == k \in DOMAIN d

Get(d, k) == IF k \in DOMAIN d THEN d[k] ELSE None

Put(d, k, v) == [x \in (DOMAIN d) \cup {k} |-> IF x = k THEN v ELSE d[x]]

\* The answers of a complete exchange: an access token and the user it is for.
Accounts ==
    { [access_token |-> "tok1", user_id |-> "u1"],
      [access_token |-> "",     user_id |-> "u2"] }

Restrict(d, D) == [k \in D |-> d[k]]

\* What kite.generate_session may return when it does not raise: a dict that
\* normally carries both keys of an account, but whose content this proxy does
\* not control, so either key may be missing.
ExchangeData ==
    { Restrict(a, D) : a \in Accounts, D \in SUBSET SessionKeys }

\* What a call to the broker raises when it fails (a rejected or expired
\* token, a rejected order, the network): the proxy catches Exception and
\* makes no distinction.
ExternalErrors == {"KiteException"}

\* ------------------------------------------------------------------ routes
\* A request path as its list of segments: /api/profile is <<"api","profile">>.
LoginPath     == <<"login">>
CallbackPath  == <<"callback">>
CheckAuthPath == <<"api", "check_auth">>
ProfilePath   == <<"api", "profile">>
HoldingsPath  == <<"api", "holdings">>
OrdersPath    == <<"api", "orders">>

Paths == {LoginPath, CallbackPath, CheckAuthPath, ProfilePath, HoldingsPath, OrdersPath}

ProtectedPaths == {ProfilePath, HoldingsPath, OrdersPath}

\* Mutant: the gate compares the path with '/api' instead of its prefix.
StartsWithApi_exact(path) == path = <<"api">>

\* request.path.startswith('/api/')
StartsWithApi(path) == Len(path) >= 2 /\ path[1] = "api"

\* --------------------------------------------------------- order quantity
\* The JSON value of order_data.get('quantity'): a number, a string (as its
\* characters) or null when the key is missing.
JInt(n)  == [type |-> "int", int |-> n, chars |-> <<>>]
JStr(cs) == [type |-> "str", int |-> 0, chars |-> cs]
JNull    == [type |-> "null", int |-> 0, chars |-> <<>>]

Digits == {"0", "1", "2", "3", "4", "5", "6", "7", "8", "9"}

DigitValue(c) ==
    CASE c = "0" -> 0 [] c = "1" -> 1 [] c = "2" -> 2 [] c = "3" -> 3
      [] c = "4" -> 4 [] c = "5" -> 5 [] c = "6" -> 6 [] c = "7" -> 7
      [] c = "8" -> 8 [] c = "9" -> 9

RECURSIVE StripLeft(_)
StripLeft(cs) ==
    IF cs # <<>> /\ Head(cs) = " " THEN StripLeft(Tail(cs)) ELSE cs

RECURSIVE StripRight(_)
StripRight(cs) ==
    IF cs # <<>> /\ cs[Len(cs)] = " "
    THEN StripRight(SubSeq(cs, 1, Len(cs) - 1))
    ELSE cs

Strip(cs) == StripRight(StripLeft(cs))

Unsigned(cs) ==
    IF cs # <<>> /\ Head(cs) \in {"+", "-"} THEN Tail(cs) ELSE cs

RECURSIVE DigitsValue(_)
DigitsValue(cs) ==
    IF cs = <<>> THEN 0
    ELSE 10 * DigitsValue(SubSeq(cs, 1, Len(cs) - 1)) + DigitValue(cs[Len(cs)])

\* int(s) for a string accepts surrounding blanks, one sign and decimal digits.
IsIntLiteral(cs) ==
    LET body == Unsigned(Strip(cs))
    IN  body # <<>> /\ \A i \in 1..Len(body) : body[i] \in Digits

\* int(order_data.get('quantity')) raises for None and for a non-numeric string.
IntRaises(q) ==
    CASE q.type = "int"  -> FALSE
      [] q.type = "str"  -> ~IsIntLiteral(q.chars)
      [] q.type = "null" -> TRUE

IntOf(q) ==
    IF q.type = "int" THEN q.int
    ELSE LET s == Strip(q.chars)
         IN  IF s # <<>> /\ s[1] = "-" THEN 0 - DigitsValue(Unsigned(s)) ELSE DigitsValue(Unsigned(s))

Quantities ==
    { JStr(<<" ", "+", "5">>), JStr(<<"a", "b", "c">>) }

\* ------------------------------------------------------------------- state
VARIABLES
    cookie,     \* cookie[s]: the session dict the browser of session s holds
    kite,       \* access token bound to the process-wide KiteConnect client
    req,        \* req[w]: the request worker w is handling
    served,     \* number of requests received so far
    exchanged   \* history: exchanged[s] is the access_token of the most recent
                \* exchange, made for session s, that returned one (None: none yet)

vars == <<cookie, kite, req, served, exchanged>>

NoResponse == [status |-> 0, body |-> "", user_id |-> None, err |-> ""]

Response(status, body, uid, err) ==
    [status |-> status, body |-> body, user_id |-> uid, err |-> err]

\* A worker between two requests.
Idle ==
    [pc |-> "idle", sid |-> "", path |-> <<>>, cookie_in |-> EmptyDict,
     request_token |-> None, quantity |-> JNull, session |-> EmptyDict, modified |-> FALSE, invoked |-> FALSE,
     calls |-> <<>>, resp |-> NoResponse]

\* One call issued to the broker: the operation, the access token the client
\* carried when it was issued, and the quantity for an order.
Call(op, token, qty) == [op |-> op, token |-> token, quantity |-> qty]

\* Mutant: a call that is made a second time (a retry).
Issue_twice(calls, c) == Append(Append(calls, c), c)

\* One call goes out to the broker: the code calls each operation once, with
\* no loop and no retry around it.
Issue(calls, c) == Append(calls, c)

Init ==
    /\ cookie = [s \in Sessions |-> EmptyDict]
    /\ kite = None
    /\ req = [w \in Workers |-> Idle]
    /\ served = 0
    /\ exchanged = [s \in Sessions |-> None]


\* --------------------------------------------------------- request set-up
\* The worker that takes the next request: the first one that is free.
Order(w) == IF w = "w1" THEN 1 ELSE 2

IdleWorkers == { w \in Workers : req[w].pc = "idle" }

FirstIdle ==
    IF IdleWorkers = {} THEN "none"
    ELSE CHOOSE w \in IdleWorkers : \A v \in IdleWorkers : Order(w) <= Order(v)

\* The quantity a request body can carry: only POST /api/orders has a body.
BodyQuantities(path) == IF path = OrdersPath THEN Quantities ELSE {JNull}

\* The request_token a query string can carry: the broker's redirect to
\* /callback has one, a request made without it has none (args.get gives None).
QueryTokens(path) ==
    IF path = CallbackPath THEN RequestTokens \cup {None} ELSE {None}

\* The request worker w starts on: a browser of session s asks for `path`, and
\* the framework opens `session` from the cookie the request carries.
Opened(s, path, q, rt) ==
    [Idle EXCEPT !.pc = "before", !.sid = s, !.path = path, !.quantity = q,
                 !.request_token = rt,
                 !.cookie_in = cookie[s], !.session = cookie[s]]

\* 'access_token' not in session
TokenMissing(session) == ~Has(session, "access_token")

\* Mutant: only the credential is dropped (session.pop('access_token')).
session_clear_tokenOnly(session) ==
    [k \in (DOMAIN session) \ {"access_token"} |-> session[k]]

\* session.clear()
session_clear(session) == EmptyDict

\* kite.set_access_token(token): the client object is shared by all workers.
set_access_token(token) == token

\* The gate, run before the view function of every request, as the first
\* thing a free worker does with a request it takes.
before_api_request(w, s, path, q, rt) ==
    LET r == Opened(s, path, q, rt) IN
    /\ w = FirstIdle
    /\ served < MaxRequests
    /\ served' = served + 1
    /\ IF StartsWithApi(r.path)
       THEN IF TokenMissing(r.session)
            THEN /\ req' = [req EXCEPT ![w] =
                             [r EXCEPT !.pc = "respond",
                                       !.resp = Response(401, "Not authenticated", None, "")]]
                 /\ UNCHANGED kite
            ELSE \/ /\ kite' = set_access_token(r.session["access_token"])
                    /\ req' = [req EXCEPT ![w] = [r EXCEPT !.pc = "view"]]
                 \/ /\ req' = [req EXCEPT ![w] =
                                [r EXCEPT !.pc = "respond",
                                          !.session = session_clear(r.session),
                                          !.modified = TRUE,
                                          !.resp = Response(401, "Session expired or invalid",
                                                            None, "BindException")]]
                    /\ UNCHANGED kite
       ELSE /\ req' = [req EXCEPT ![w] = [r EXCEPT !.pc = "view"]]
            /\ UNCHANGED kite
    /\ UNCHANGED <<cookie, exchanged>>

\* ------------------------------------------------------------ view functions
login(w) ==
    /\ req[w].pc = "view"
    /\ req[w].path = LoginPath
    /\ req' = [req EXCEPT ![w].pc = "respond", ![w].invoked = TRUE,
                          ![w].resp = Response(302, "login_url", None, "")]
    /\ UNCHANGED <<cookie, kite, served, exchanged>>

\* Mutant: the assignment of session['user_id'] is forgotten.
StoreExchange_tokenOnly(session, data) ==
    IF ~Has(data, "access_token") THEN session
    ELSE Put(session, "access_token", data["access_token"])

\* The session after the two assignments of callback, as far as they get:
\* data['access_token'] or data['user_id'] raises KeyError when the key is
\* missing, and what was assigned before stays assigned.
StoreExchange(session, data) ==
    IF ~Has(data, "access_token") THEN session
    ELSE IF ~Has(data, "user_id")
         THEN Put(session, "access_token", data["access_token"])
         ELSE Put(Put(session, "access_token", data["access_token"]),
                  "user_id", data["user_id"])

\* Mutant: the failure of the exchange is answered as a server error.
AuthFailed_500(e) == Response(500, "Authentication failed", None, e)

\* except Exception as e: the 400 answer of callback
AuthFailed(e) == Response(400, "Authentication failed", None, e)

ExchangeComplete(data) == Has(data, "access_token") /\ Has(data, "user_id")

\* Mutant: the test for the request token is left out.
NoRequestToken_unchecked(request_token) == FALSE

\* not request_token
NoRequestToken(request_token) == request_token = None \/ request_token = ""

callback(w) ==
    LET r == req[w] IN
    /\ r.pc = "view"
    /\ r.path = CallbackPath
    /\ LET request_token == r.request_token IN
         IF NoRequestToken(request_token)
         THEN /\ req' = [req EXCEPT ![w].pc = "respond", ![w].invoked = TRUE,
                                    ![w].resp = Response(400, "No request token found", None, "")]
              /\ UNCHANGED exchanged
         ELSE LET issued == Issue(r.calls, Call("generate_session", None, 0)) IN
              \/ \E e \in ExternalErrors :
                   /\ req' = [req EXCEPT ![w].pc = "respond", ![w].invoked = TRUE,
                                      ![w].calls = issued,
                                      ![w].resp = AuthFailed(e)]
                   /\ UNCHANGED exchanged
              \/ \E data \in ExchangeData :
                   /\ exchanged' = IF Has(data, "access_token")
                                   THEN [exchanged EXCEPT ![r.sid] = data["access_token"]]
                                   ELSE exchanged
                   /\ req' = [req EXCEPT ![w].pc = "respond", ![w].invoked = TRUE,
                                      ![w].calls = issued,
                                      ![w].session = StoreExchange(r.session, data),
                                      ![w].modified = Has(data, "access_token"),
                                      ![w].resp =
                                          IF ExchangeComplete(data)
                                          THEN Response(302, "frontend_url", None, "")
                                          ELSE AuthFailed("KeyError")]
    /\ UNCHANGED <<cookie, kite, served>>

check_auth(w) ==
    LET r == req[w] IN
    /\ r.pc = "view"
    /\ r.path = CheckAuthPath
    /\ req' = [req EXCEPT ![w].pc = "respond", ![w].invoked = TRUE,
                          ![w].resp =
                              IF Has(r.session, "access_token")
                              THEN Response(200, "authenticated_true",
                                            Get(r.session, "user_id"), "")
                              ELSE Response(401, "authenticated_false", None, "")]
    /\ UNCHANGED <<cookie, kite, served, exchanged>>

\* Mutant: a failed read is answered as a client error, like a failed order.
UpstreamFailed_400(msg, e) == Response(400, msg, None, e)

\* except Exception as e: the 500 answer of get_profile and get_holdings
UpstreamFailed(msg, e) == Response(500, msg, None, e)

\* Mutant: the merged answer is given after kite.profile() alone.
get_profile_skip(w) ==
    LET r == req[w]
        issued == Issue(r.calls, Call("profile", kite, 0)) IN
    /\ r.pc = "view"
    /\ r.path = ProfilePath
    /\ \/ req' = [req EXCEPT ![w].pc = "respond", ![w].invoked = TRUE,
                             ![w].calls = issued,
                             ![w].resp = Response(200, "profile_with_margins", None, "")]
       \/ \E e \in ExternalErrors :
            req' = [req EXCEPT ![w].pc = "respond", ![w].invoked = TRUE,
                               ![w].calls = issued,
                               ![w].resp = UpstreamFailed("Failed to fetch profile", e)]
    /\ UNCHANGED <<cookie, kite, served, exchanged>>

\* kite.profile(): the first of the two broker calls of get_profile.
get_profile(w) ==
    LET r == req[w]
        issued == Issue(r.calls, Call("profile", kite, 0)) IN
    /\ r.pc = "view"
    /\ r.path = ProfilePath
    /\ \/ req' = [req EXCEPT ![w].pc = "margins", ![w].invoked = TRUE,
                             ![w].calls = issued]
       \/ \E e \in ExternalErrors :
            req' = [req EXCEPT ![w].pc = "respond", ![w].invoked = TRUE,
                               ![w].calls = issued,
                               ![w].resp = UpstreamFailed("Failed to fetch profile", e)]
    /\ UNCHANGED <<cookie, kite, served, exchanged>>

\* kite.margins(), then the merged response.
get_profile_margins(w) ==
    LET r == req[w]
        issued == Issue(r.calls, Call("margins", kite, 0)) IN
    /\ r.pc = "margins"
    /\ \/ req' = [req EXCEPT ![w].pc = "respond", ![w].calls = issued,
                             ![w].resp = Response(200, "profile_with_margins", None, "")]
       \/ \E e \in ExternalErrors :
            req' = [req EXCEPT ![w].pc = "respond", ![w].calls = issued,
                               ![w].resp = UpstreamFailed("Failed to fetch profile", e)]
    /\ UNCHANGED <<cookie, kite, served, exchanged>>

get_holdings(w) ==
    LET r == req[w]
        issued == Issue(r.calls, Call("holdings", kite, 0)) IN
    /\ r.pc = "view"
    /\ r.path = HoldingsPath
    /\ \/ req' = [req EXCEPT ![w].pc = "respond", ![w].invoked = TRUE,
                             ![w].calls = issued,
                             ![w].resp = Response(200, "holdings", None, "")]
       \/ \E e \in ExternalErrors :
            req' = [req EXCEPT ![w].pc = "respond", ![w].invoked = TRUE,
                               ![w].calls = issued,
                               ![w].resp = UpstreamFailed("Failed to fetch holdings", e)]
    /\ UNCHANGED <<cookie, kite, served, exchanged>>

\* Mutant: a failed order is answered as a server error, like the other views.
OrderFailed_500(e) == Response(500, "Order placement failed", None, e)

\* except Exception as e: the 400 answer of place_order
OrderFailed(e) == Response(400, "Order placement failed", None, e)

\* The arguments of kite.place_order are evaluated before the call is made:
\* when int(...) raises, the call is not issued.
QuantityRejected(q) == IntRaises(q)

place_order(w) ==
    LET r == req[w] IN
    /\ r.pc = "view"
    /\ r.path = OrdersPath
    /\ LET q == r.quantity IN
         IF QuantityRejected(q)
         THEN req' = [req EXCEPT ![w].pc = "respond", ![w].invoked = TRUE,
                                 ![w].resp = OrderFailed("ValueError")]
         ELSE LET issued == Issue(r.calls, Call("place_order", kite, IntOf(q))) IN
              \/ req' = [req EXCEPT ![w].pc = "respond", ![w].invoked = TRUE,
                                    ![w].calls = issued,
                                    ![w].resp = Response(200, "success", None, "")]
              \/ \E e \in ExternalErrors :
                   req' = [req EXCEPT ![w].pc = "respond", ![w].invoked = TRUE,
                                      ![w].calls = issued,
                                      ![w].resp = OrderFailed(e)]
    /\ UNCHANGED <<cookie, kite, served, exchanged>>

\* ------------------------------------------------------------------ response
\* The response goes out; the framework sends the session back as the cookie
\* when the request modified it, and the worker is free again.
Respond(w) ==
    LET r == req[w] IN
    /\ r.pc = "respond"
    /\ cookie' = IF r.modified THEN [cookie EXCEPT ![r.sid] = r.session] ELSE cookie
    /\ req' = [req EXCEPT ![w] = Idle]
    /\ UNCHANGED <<kite, served, exchanged>>

Next ==
    \/ \E w \in Workers, s \in Sessions, path \in Paths :
         \E q \in BodyQuantities(path), rt \in QueryTokens(path) :
             before_api_request(w, s, path, q, rt)
    \/ \E w \in Workers : login(w)
    \/ \E w \in Workers : callback(w)
    \/ \E w \in Workers : check_auth(w)
    \/ \E w \in Workers : get_profile(w)
    \/ \E w \in Workers : get_profile_margins(w)
    \/ \E w \in Workers : get_holdings(w)
    \/ \E w \in Workers : place_order(w)
    \/ \E w \in Workers : Respond(w)

Spec == Init /\ [][Next]_vars

TypeOK ==
    /\ served \in 0..MaxRequests
    /\ kite \in Tokens \cup {None}
    /\ \A s \in Sessions : exchanged[s] \in Tokens \cup {None}
    /\ \A s \in Sessions : cookie[s] \in Dicts
    /\ \A w \in Workers :
         /\ req[w].pc \in {"idle", "view", "margins", "respond"}
         /\ req[w].session \in Dicts


\* ===================================================================== claims
Responding(w) == req[w].pc = "respond"

NotAuthenticated == Response(401, "Not authenticated", None, "")

BindFailed(r) == r.resp.err = "BindException"

\* Worker w hands its response over in this step.
Responds(w) == req[w].pc = "respond" /\ req'[w].pc = "idle"

\* C1: a request to a protected route whose session holds no access_token is
\* answered 401 {error: 'Not authenticated'} by the gate; the view function is
\* not invoked and no call to the broker is issued.
C1_UnauthenticatedIsRejected ==
    \A w \in Workers :
        (req[w].path \in ProtectedPaths /\ ~Has(req[w].cookie_in, "access_token"))
        => /\ req[w].pc = "respond"
           /\ req[w].resp = NotAuthenticated
           /\ ~req[w].invoked
           /\ req[w].calls = <<>>
           /\ ~req[w].modified

C1_Witness ==
    \E w \in Workers :
        /\ req[w].path = OrdersPath
        /\ req[w].cookie_in = EmptyDict
        /\ Responding(w)
        /\ \E v \in Workers : req[v].pc = "view" /\ req[v].path \in ProtectedPaths

C4_BindFailureClearsSession ==
    [][ \A w \in Workers :
          /\ (req'[w].pc = "respond" /\ BindFailed(req'[w]))
             => /\ req'[w].session = EmptyDict
                /\ req'[w].modified
                /\ req'[w].resp.status = 401
                /\ ~req'[w].invoked
                /\ req'[w].calls = <<>>
          /\ (Responds(w) /\ BindFailed(req[w]))
             => cookie'[req[w].sid] = EmptyDict
          /\ ( /\ req'[w].pc = "respond"
               /\ req'[w].path = CheckAuthPath
               /\ req'[w].cookie_in = EmptyDict )
             => /\ req'[w].resp.status = 401
                /\ req'[w].resp.body # "authenticated_true"
      ]_vars

\* A session that held both keys has been cleared by a bind failure on a
\* protected route, and a later check_auth of it is answered 401.
C4_Witness ==
    \E w \in Workers :
        /\ Responding(w)
        /\ req[w].path = CheckAuthPath
        /\ req[w].cookie_in = EmptyDict
        /\ req[w].resp.status = 401
        /\ \E v \in Workers :
             /\ Responding(v)
             /\ req[v].sid = req[w].sid
             /\ req[v].path = HoldingsPath
             /\ BindFailed(req[v])
             /\ req[v].cookie_in \in Accounts

\* C5 (as claimed): a check_auth of a session without credential is answered
\* by the check_auth view itself, with 401 {authenticated: false}.
C5_CheckAuthSelfReports ==
    \A w \in Workers :
        ( /\ Responding(w)
          /\ req[w].path = CheckAuthPath
          /\ ~Has(req[w].cookie_in, "access_token") )
        => /\ req[w].invoked
           /\ req[w].resp = Response(401, "authenticated_false", None, "")

\* C6 (as claimed): handling check_auth never changes the session and never
\* issues a call to the broker.
C6_CheckAuthPureRead ==
    \A w \in Workers :
        (Responding(w) /\ req[w].path = CheckAuthPath)
        => /\ req[w].session = req[w].cookie_in
           /\ ~req[w].modified
           /\ req[w].calls = <<>>

NoPlaceOrder(r) == \A i \in DOMAIN r.calls : r.calls[i].op # "place_order"

\* C7 (as claimed): a place-order request with a non-numeric quantity never
\* reaches the broker's place_order, is answered with a 400-class status, and
\* leaves the session unchanged.
C7_Original ==
    \A w \in Workers :
        (Responding(w) /\ req[w].path = OrdersPath /\ IntRaises(req[w].quantity))
        => /\ NoPlaceOrder(req[w])
           /\ req[w].resp.status \in 400..499
           /\ req[w].session = req[w].cookie_in
           /\ ~req[w].modified

\* C7 (amended): a place-order request with a non-numeric quantity never
\* issues a call to the broker; when it passes the gate it is answered 400 by
\* the view and leaves the session unchanged; when the gate stops it the
\* answer is the gate's 401.
C7_NonNumericQuantity ==
    \A w \in Workers :
        (req[w].path = OrdersPath /\ IntRaises(req[w].quantity))
        => /\ req[w].calls = <<>>
           /\ (Responding(w) /\ req[w].invoked)
              => /\ req[w].resp = Response(400, "Order placement failed", None, "ValueError")
                 /\ req[w].session = req[w].cookie_in
                 /\ ~req[w].modified
           /\ (Responding(w) /\ ~req[w].invoked) => req[w].resp.status = 401

\* The view has answered an order whose quantity is "abc", while another
\* order, with a numeric quantity, has gone out to the broker.
C7_Witness ==
    \E w, v \in Workers :
        /\ Responding(w)
        /\ req[w].path = OrdersPath
        /\ req[w].quantity = JStr(<<"a", "b", "c">>)
        /\ req[w].invoked
        /\ req[w].resp.status = 400
        /\ Responding(v)
        /\ req[v].path = OrdersPath
        /\ req[v].quantity = JStr(<<" ", "+", "5">>)
        /\ req[v].calls = <<Call("place_order", kite, 5)>>

\* C8 (as claimed): the view function of a protected route runs only with a
\* non-empty access_token in the session; a session whose access_token is
\* absent or "" is stopped at the gate, before any call to the broker.
C8_NonEmptyTokenRequired ==
    \A w \in Workers :
        (req[w].path \in ProtectedPaths /\ (req[w].invoked \/ req[w].calls # <<>>))
        => /\ Has(req[w].cookie_in, "access_token")
           /\ req[w].cookie_in["access_token"] # ""

TokenRejected(r) ==
    /\ r.path \in ProtectedPaths
    /\ r.invoked
    /\ r.resp.err \in ExternalErrors

\* C9 (as claimed): when a call of a protected route fails because the broker
\* rejected the access token, the session is cleared: the request leaves no
\* access_token in it.
C9_RejectionClearsSession ==
    \A w \in Workers :
        (Responding(w) /\ TokenRejected(req[w]))
        => /\ ~Has(req[w].session, "access_token")
           /\ req[w].modified

\* C10 (as claimed): requests of different sessions are independent: a call
\* issued to the broker for a protected request carries the access_token of
\* that request's own session, never the credential of another session.
C10_OwnCredential ==
    \A w \in Workers :
        req[w].path \in ProtectedPaths
        => \A i \in DOMAIN req[w].calls :
             \/ req[w].calls[i].token = Get(req[w].cookie_in, "access_token")
             \/ \A s \in Sessions \ {req[w].sid} :
                  Get(cookie[s], "access_token") # req[w].calls[i].token

\* The operations of the calls a request has issued, in order.
RECURSIVE Ops(_)
Ops(calls) == IF calls = <<>> THEN <<>> ELSE <<calls[1].op>> \o Ops(Tail(calls))

\* C11 (as claimed): within one get-profile request the profile call and the
\* margins call both carry the credential the gate bound for this request,
\* the access_token of the request's session, whatever other requests do in
\* between.
C11_ProfileCallsOneCredential ==
    \A w \in Workers :
        req[w].path = ProfilePath
        => \A i \in DOMAIN req[w].calls :
             /\ Has(req[w].cookie_in, "access_token")
             /\ req[w].calls[i].token = req[w].cookie_in["access_token"]

\* The view of worker w's request ran and a call it made to the broker raised.
CallRaised(w) ==
    /\ Responding(w)
    /\ req[w].invoked
    /\ req[w].calls # <<>>
    /\ req[w].resp.err \in ExternalErrors

\* C12: a failure of a call to the broker is caught and answered as an HTTP
\* error: 400 for the token exchange, 500 for profile or margins, 500 for
\* holdings, 400 for place_order; and every answer has a status among 200,
\* 302, 400, 401 and 500.
C12_FailuresBecomeHttpErrors ==
    \A w \in Workers :
        /\ Responding(w) => req[w].resp.status \in {200, 302, 400, 401, 500}
        /\ CallRaised(w) =>
             /\ req[w].path = CallbackPath => req[w].resp.status = 400
             /\ req[w].path = ProfilePath  => req[w].resp.status = 500
             /\ req[w].path = HoldingsPath => req[w].resp.status = 500
             /\ req[w].path = OrdersPath   => req[w].resp.status = 400
        /\ (Responding(w) /\ req[w].invoked /\ req[w].calls # <<>>
              /\ req[w].resp.status \in {200, 302})
           => req[w].resp.err = ""

\* kite.margins() has raised in one get-profile request, answered 500, while
\* the broker has rejected an order of another request, answered 400.
C12_Witness ==
    \E w, v \in Workers :
        /\ CallRaised(w)
        /\ req[w].path = ProfilePath
        /\ Len(req[w].calls) = 2
        /\ req[w].resp.status = 500
        /\ CallRaised(v)
        /\ req[v].path = OrdersPath
        /\ req[v].resp.status = 400

\* C13 (as claimed): clearing the session is unique to the gate's failure to
\* bind the credential: a request answered with any other error (400 of
\* /callback, 401 of an unauthenticated request, 500 of a failed read, 400 of
\* a refused order) leaves access_token and user_id of its session as they
\* were.
C13_OnlyBindFailureAltersSession ==
    \A w \in Workers :
        ( /\ Responding(w)
          /\ req[w].resp.status \in {400, 401, 500}
          /\ ~BindFailed(req[w]) )
        => /\ req[w].session = req[w].cookie_in
           /\ ~req[w].modified

\* C14: a /callback request that carries no request_token makes no exchange
\* call, keeps its session as it came in, and is answered 400
\* {error: 'No request token found'}.
C14_NoRequestTokenNoExchange ==
    \A w \in Workers :
        (req[w].path = CallbackPath /\ req[w].request_token = None)
        => /\ req[w].calls = <<>>
           /\ req[w].session = req[w].cookie_in
           /\ ~req[w].modified
           /\ Responding(w)
              => req[w].resp = Response(400, "No request token found", None, "")

\* A logged-in session asks for /callback without request_token and has been
\* answered 400.
C14_Witness ==
    \E w \in Workers :
        /\ Responding(w)
        /\ req[w].path = CallbackPath
        /\ req[w].request_token = None
        /\ req[w].cookie_in = [access_token |-> "tok1", user_id |-> "u1"]
        /\ req[w].resp.status = 400

\* The operations a request to `path` may call at the broker.
OpsOf(path) ==
    CASE path = CallbackPath -> {"generate_session"}
      [] path = ProfilePath  -> {"profile", "margins"}
      [] path = HoldingsPath -> {"holdings"}
      [] path = OrdersPath   -> {"place_order"}
      [] OTHER               -> {}

\* C15: there is no retry: a request calls each operation of the broker at
\* most once, and only the operations of its route; a place-order request
\* makes at most one place_order call, also when the broker fails.
C15_AtMostOnce ==
    \A w \in Workers :
        /\ \A i, j \in DOMAIN req[w].calls :
             req[w].calls[i].op = req[w].calls[j].op => i = j
        /\ \A i \in DOMAIN req[w].calls : req[w].calls[i].op \in OpsOf(req[w].path)
        /\ req[w].path = OrdersPath => Len(req[w].calls) <= 1

\* The broker has failed an order, which was sent once, while a get-profile
\* request has made its two calls and the second has failed.
C15_Witness ==
    \E w, v \in Workers :
        /\ CallRaised(w)
        /\ req[w].path = OrdersPath
        /\ Ops(req[w].calls) = <<"place_order">>
        /\ CallRaised(v)
        /\ req[v].path = ProfilePath
        /\ Ops(req[v].calls) = <<"profile", "margins">>

\* C16 (as claimed): a /callback request answered 400 leaves its session as
\* it came in, also when the exchange result lacks user_id or access_token;
\* hence a session that holds an access_token holds with it the user_id of
\* the same exchange.
C16_FailedCallbackLeavesSession ==
    /\ \A w \in Workers :
         (Responding(w) /\ req[w].path = CallbackPath /\ req[w].resp.status = 400)
         => /\ req[w].session = req[w].cookie_in
            /\ ~req[w].modified
    /\ \A s \in Sessions :
         Has(cookie[s], "access_token") => cookie[s] \in Accounts

\* A callback of session s has stored a token and its response, which carries
\* the session back to the browser, is still on its way.
PendingStore(s) ==
    \E w \in Workers :
        /\ Responding(w)
        /\ req[w].sid = s
        /\ req[w].path = CallbackPath
        /\ req[w].modified

\* C17 (as claimed): the access_token of a session, when present, is the
\* token returned by the most recent exchange made for that session that
\* returned one (once the callback that made it has answered).
C17_TokenOfLatestExchange ==
    \A s \in Sessions :
        (Has(cookie[s], "access_token") /\ ~PendingStore(s))
        => cookie[s]["access_token"] = exchanged[s]

\* C18: in a get-profile request the margins call is made only after the
\* profile call has returned; when the profile call fails the margins call
\* is never made and the answer is 500; the answer is 200 only when both
\* calls have succeeded.
C18_MarginsAfterProfile ==
    \A w \in Workers :
        req[w].path = ProfilePath
        => /\ Ops(req[w].calls) \in {<<>>, <<"profile">>, <<"profile", "margins">>}
           /\ req[w].pc = "margins" => Ops(req[w].calls) = <<"profile">>
           /\ (Responding(w) /\ req[w].invoked /\ Ops(req[w].calls) = <<"profile">>)
              => /\ req[w].resp.status = 500
                 /\ req[w].resp.err \in ExternalErrors
           /\ (Responding(w) /\ req[w].resp.status = 200)
              => /\ Ops(req[w].calls) = <<"profile", "margins">>
                 /\ req[w].resp.err = ""

\* One get-profile request has been answered 500 after its profile call
\* failed, with no margins call; another has been answered 200 after both.
C18_Witness ==
    \E w, v \in Workers :
        /\ Responding(w)
        /\ req[w].path = ProfilePath
        /\ Ops(req[w].calls) = <<"profile">>
        /\ req[w].resp.status = 500
        /\ Responding(v)
        /\ req[v].path = ProfilePath
        /\ Ops(req[v].calls) = <<"profile", "margins">>
        /\ req[v].resp.status = 200

=============================================================================
